---- MODULE Spec2Model ----
(***************************************************************************)
(* Release-metadata scripts of cfait: scripts/prepare_release.py and       *)
(* scripts/sync_version_code.py.                                           *)
(*                                                                         *)
(* Text is modelled as a sequence of tokens.  A token is one character     *)
(* (" ", "\n", "=", ".", a digit, "*", "<", ...) or one opaque word (a run   *)
(* of letters such as "version", "_code", "Features").  Regular            *)
(* expressions and str methods are operators over such sequences, written  *)
(* to act as the Python calls do.                                          *)
(***************************************************************************)
EXTENDS Integers, Sequences, FiniteSets, TLC

VARIABLES
    groups,          \* ver_match.groups() of each of two manifests
    version_code,    \* prepare_release.py: version_code, per manifest
    new_code,        \* sync_version_code.py: new_code, per manifest
    cargo_toml,      \* the text of Cargo.toml on disk
    runs,            \* one record per finished run of a script on Cargo.toml
    changelog_md,    \* the argument of _parse_changelog_to_appstream
    xml_result,      \* the string it returns
    xform_pc,        \* "call" before the call, "returned" after it
    item,            \* an element of current_items in flush_section
    li_line,         \* the <li> line appended to xml_parts for it
    xml_content,     \* the text of the metainfo file on disk
    insertions,      \* one record per finished release-insertion step
    pc,              \* the step prepare_release.py main() is at
    writes,          \* the files written so far, in the order written
    failure,         \* the step at which a fatal error was raised
    git_add_called,  \* whether the staging call has been made
    flatpak_exists   \* os.path.exists(flatpak_manifest)

codeVars == <<groups, version_code, new_code>>
syncVars == <<cargo_toml, runs>>
xformVars == <<changelog_md, xml_result, xform_pc>>
escapeVars == <<item, li_line>>
metaVars == <<xml_content, insertions>>
releaseVars == <<pc, writes, failure, git_add_called, flatpak_exists>>
vars == <<codeVars, syncVars, xformVars, escapeVars, metaVars, releaseVars>>

\* the variables of the parts a specification leaves aside
IdleCode == groups = <<>> /\ version_code = <<>> /\ new_code = <<>>
IdleSync == cargo_toml = <<>> /\ runs = <<>>
IdleXform == changelog_md = <<>> /\ xml_result = <<>> /\ xform_pc = "idle"
IdleEscape == item = <<>> /\ li_line = <<>>
IdleMeta == xml_content = <<>> /\ insertions = <<>>
IdleRelease ==
    /\ pc = "idle" /\ writes = <<>> /\ failure = "none"
    /\ git_add_called = FALSE /\ flatpak_exists = FALSE

\* ------------------------------------------------------------------ text
Digits == {"0", "1", "2", "3", "4", "5", "6", "7", "8", "9"}

IsDigit(c) == c \in Digits

\* Python's \s and str.strip(): the whitespace tokens of the model
IsSpace(c) == c \in {" ", "\n"}

DigitVal(c) ==
    CASE c = "0" -> 0 [] c = "1" -> 1 [] c = "2" -> 2 [] c = "3" -> 3
      [] c = "4" -> 4 [] c = "5" -> 5 [] c = "6" -> 6 [] c = "7" -> 7
      [] c = "8" -> 8 [] c = "9" -> 9

DigitChar(d) ==
    CASE d = 0 -> "0" [] d = 1 -> "1" [] d = 2 -> "2" [] d = 3 -> "3"
      [] d = 4 -> "4" [] d = 5 -> "5" [] d = 6 -> "6" [] d = 7 -> "7"
      [] d = 8 -> "8" [] d = 9 -> "9"

\* int(s) for a string of decimal digits (leading zeros allowed)
RECURSIVE int(_)
int(s) ==
    IF s = <<>> THEN 0
    ELSE 10 * int(SubSeq(s, 1, Len(s) - 1)) + DigitVal(s[Len(s)])

\* str(n), the f-string formatting of a non-negative integer
RECURSIVE str(_)
str(n) ==
    IF n < 10 THEN <<DigitChar(n)>>
    ELSE Append(str(n \div 10), DigitChar(n % 10))

\* ------------------------------------------------------------ build code
\* major, minor, patch = map(int, ver_match.groups())
MapInt(g) == <<int(g[1]), int(g[2]), int(g[3])>>

\* a plausible slip: the minor field weighted by 10 instead of 100
BuildCodeMinorTimes10(major, minor, patch) == major * 10000 + minor * 10 + patch

\* prepare_release.py: version_code = major * 10000 + minor * 100 + patch
PrepareVersionCode(major, minor, patch) == major * 10000 + minor * 100 + patch

\* sync_version_code.py: new_code = major * 10000 + minor * 100 + patch
SyncNewCode(major, minor, patch) == major * 10000 + minor * 100 + patch

\* largest major version of the manifests drawn
MaxMajor == 2

\* the minor and patch groups drawn: 0, 1, 10, 99, 100 and 01
GroupSamples ==
    { <<"0">>, <<"1">>, <<"1", "0">>, <<"9", "9">>, <<"1", "0", "0">>, <<"0", "1">> }

VersionGroups ==
    { <<str(M), m, p>> : M \in 0..MaxMajor, m \in GroupSamples, p \in GroupSamples }

NoCode == 0 - 1

InitCode ==
    /\ groups \in [1..2 -> VersionGroups]
    /\ version_code = [k \in 1..2 |-> NoCode]
    /\ new_code = [k \in 1..2 |-> NoCode]
    /\ IdleSync /\ IdleXform /\ IdleEscape /\ IdleMeta /\ IdleRelease

\* prepare_release.py lines 24-29, on each manifest
PrepareReleaseCode ==
    /\ version_code = [k \in 1..2 |-> NoCode]
    /\ version_code' = [k \in 1..2 |->
            LET v == MapInt(groups[k]) IN PrepareVersionCode(v[1], v[2], v[3])]
    /\ UNCHANGED <<groups, new_code, syncVars, xformVars, escapeVars, metaVars, releaseVars>>

\* sync_version_code.py lines 17-20, on each manifest
SyncVersionCodeCode ==
    /\ new_code = [k \in 1..2 |-> NoCode]
    /\ new_code' = [k \in 1..2 |->
            LET v == MapInt(groups[k]) IN SyncNewCode(v[1], v[2], v[3])]
    /\ UNCHANGED <<groups, version_code, syncVars, xformVars, escapeVars, metaVars, releaseVars>>

NextCode == PrepareReleaseCode \/ SyncVersionCodeCode

SpecCode == InitCode /\ [][NextCode]_vars

\* the restricted domain of the build-code claim
InDomain(v) == v[2] \in 0..99 /\ v[3] \in 0..99

\* C1: for 0 <= minor, patch <= 99 both scripts compute
\* major*10000 + minor*100 + patch, and two manifests with distinct version
\* triples of that domain never get the same build code.
BuildCodeInjective ==
    LET v1 == MapInt(groups[1])
        v2 == MapInt(groups[2])
        Formula(v) == v[1] * 10000 + v[2] * 100 + v[3]
    IN  /\ \A k \in 1..2 :
            LET v == MapInt(groups[k]) IN
            InDomain(v) =>
                /\ version_code[k] # NoCode => version_code[k] = Formula(v)
                /\ new_code[k] # NoCode => new_code[k] = Formula(v)
        /\ (InDomain(v1) /\ InDomain(v2) /\ v1 # v2) =>
                /\ version_code[1] # NoCode => version_code[1] # version_code[2]
                /\ new_code[1] # NoCode => new_code[1] # new_code[2]

\* both scripts have run on two distinct in-domain versions
BuildCodeWitness ==
    /\ version_code[1] # NoCode /\ new_code[1] # NoCode
    /\ InDomain(MapInt(groups[1])) /\ InDomain(MapInt(groups[2]))
    /\ MapInt(groups[1]) # MapInt(groups[2])
    /\ MapInt(groups[1])[2] = 99
    /\ version_code[1] = new_code[1]

\* ------------------------------------------- Cargo.toml: version_code
At(s, i, c) == i <= Len(s) /\ s[i] = c

\* ^ under re.MULTILINE: the start of the text or just after a newline
AtLineStart(s, i) == i = 1 \/ s[i - 1] = "\n"

\* \s* from position i: the first position that holds no whitespace
RECURSIVE SkipSpaces(_, _)
SkipSpaces(s, i) ==
    IF i <= Len(s) /\ IsSpace(s[i]) THEN SkipSpaces(s, i + 1) ELSE i

\* \d* from position i: the first position that holds no digit
RECURSIVE SkipDigits(_, _)
SkipDigits(s, i) ==
    IF i <= Len(s) /\ IsDigit(s[i]) THEN SkipDigits(s, i + 1) ELSE i

\* version\s*=\s*"(\d+)\.(\d+)\.(\d+)" matched at position i: the three
\* groups, or <<>> when it does not match there
MatchVersionAt(s, i) ==
    LET e  == SkipSpaces(s, i + 1)
        q  == SkipSpaces(s, e + 1)
        a1 == q + 1
        a2 == SkipDigits(s, a1)
        b1 == a2 + 1
        b2 == SkipDigits(s, b1)
        c1 == b2 + 1
        c2 == SkipDigits(s, c1)
    IN  IF /\ At(s, i, "version")
           /\ At(s, e, "=")
           /\ At(s, q, "\"")
           /\ a2 > a1 /\ At(s, a2, ".")
           /\ b2 > b1 /\ At(s, b2, ".")
           /\ c2 > c1 /\ At(s, c2, "\"")
        THEN <<SubSeq(s, a1, a2 - 1), SubSeq(s, b1, b2 - 1), SubSeq(s, c1, c2 - 1)>>
        ELSE <<>>

\* re.search(r'^version\s*=\s*"(\d+)\.(\d+)\.(\d+)"', content, re.MULTILINE):
\* the groups of the first match, or <<>> for None
RECURSIVE SearchVersionFrom(_, _)
SearchVersionFrom(s, i) ==
    IF i > Len(s) THEN <<>>
    ELSE IF AtLineStart(s, i) /\ MatchVersionAt(s, i) # <<>>
         THEN MatchVersionAt(s, i)
         ELSE SearchVersionFrom(s, i + 1)

SyncSearchVersion(content) == SearchVersionFrom(content, 1)

PrepareSearchVersion(content) == SearchVersionFrom(content, 1)

\* version_code\s*=\s*\d+ matched at position i: the position after the
\* match, or 0 when it does not match there
MatchVersionCodeAt(s, i) ==
    LET e == SkipSpaces(s, i + 2)
        d == SkipSpaces(s, e + 1)
        z == SkipDigits(s, d)
    IN  IF /\ At(s, i, "version") /\ At(s, i + 1, "_code")
           /\ At(s, e, "=")
           /\ z > d
        THEN z
        ELSE 0

\* the replacement text f'version_code = {new_code}'
VersionCodeField(code) == <<"version", "_code", " ", "=", " ">> \o str(code)

\* a plausible slip: the pattern stops before \d+, so the old digits stay
\* behind the new value
RECURSIVE SubKeepingOldDigits(_, _, _)
SubKeepingOldDigits(s, i, code) ==
    IF i > Len(s) THEN <<>>
    ELSE IF AtLineStart(s, i) /\ MatchVersionCodeAt(s, i) > 0
         THEN VersionCodeField(code)
                \o SubKeepingOldDigits(s,
                      SkipSpaces(s, SkipSpaces(s, i + 2) + 1), code)
         ELSE <<s[i]>> \o SubKeepingOldDigits(s, i + 1, code)

\* re.sub(r'^version_code\s*=\s*\d+', f'version_code = {code}', s,
\* flags=re.MULTILINE), scanning from position i: every match, left to
\* right and not overlapping, is replaced
RECURSIVE SubVersionCodeFrom(_, _, _)
SubVersionCodeFrom(s, i, code) ==
    IF i > Len(s) THEN <<>>
    ELSE IF AtLineStart(s, i) /\ MatchVersionCodeAt(s, i) > 0
         THEN VersionCodeField(code)
                \o SubVersionCodeFrom(s, MatchVersionCodeAt(s, i), code)
         ELSE <<s[i]>> \o SubVersionCodeFrom(s, i + 1, code)

SyncSubVersionCode(content, code) == SubVersionCodeFrom(content, 1, code)

PrepareSubVersionCode(content, code) == SubVersionCodeFrom(content, 1, code)

\* the pieces the manifests drawn are made of
VersionLineA == <<"version", " ", "=", " ", "\"", "1", ".", "2", ".", "3", "\"", "\n">>
VersionLineB == <<"version", "=", "\"", "0", ".", "1", "0", ".", "0", "\"", "\n">>
CodeField    == <<"version", "_code", " ", "=", " ", "5">>
CodeNoValue  == <<"version", "_code", "=", "\n">>

CargoSegments ==
    { VersionLineA, VersionLineB, CodeField, CodeNoValue, <<"7">>, <<"\n">>, <<"name">> }

\* most segments of a manifest drawn
MaxSegs == 3

\* most runs of a script on the same working tree
MaxRuns == 2

RECURSIVE Flatten(_)
Flatten(ss) == IF ss = <<>> THEN <<>> ELSE Head(ss) \o Flatten(Tail(ss))

CargoTexts ==
    { Flatten(ss) : ss \in UNION { [1..n -> CargoSegments] : n \in 0..MaxSegs } }

InitSync ==
    /\ cargo_toml \in CargoTexts
    /\ runs = <<>>
    /\ IdleCode /\ IdleXform /\ IdleEscape /\ IdleMeta /\ IdleRelease

\* sync_version_code.py main(): one whole run of the script
SyncVersionCode ==
    /\ Len(runs) < MaxRuns
    /\ LET content   == cargo_toml
           ver_match == SyncSearchVersion(content)
       IN  IF ver_match = <<>>
           THEN \* sys.exit(1) before the file is opened for writing
                /\ runs' = Append(runs,
                        [script |-> "sync_version_code", content |-> content,
                         wrote |-> FALSE, new_content |-> <<>>, exit |-> 1])
                /\ UNCHANGED cargo_toml
           ELSE LET v == MapInt(ver_match)
                    code == SyncNewCode(v[1], v[2], v[3])
                    new_content == SyncSubVersionCode(content, code)
                IN  /\ cargo_toml' = new_content
                    /\ runs' = Append(runs,
                            [script |-> "sync_version_code", content |-> content,
                             wrote |-> TRUE, new_content |-> new_content,
                             exit |-> 0])
    /\ UNCHANGED <<codeVars, xformVars, escapeVars, metaVars, releaseVars>>

\* prepare_release.py main(), steps 1 to 3: what a run does to Cargo.toml.
\* No later step writes Cargo.toml; the exit code recorded is the one the
\* run has when every later step succeeds.
PrepareReleaseCargo ==
    /\ Len(runs) < MaxRuns
    /\ LET content   == cargo_toml
           ver_match == PrepareSearchVersion(content)
       IN  IF ver_match = <<>>
           THEN /\ runs' = Append(runs,
                        [script |-> "prepare_release", content |-> content,
                         wrote |-> FALSE, new_content |-> <<>>, exit |-> 1])
                /\ UNCHANGED cargo_toml
           ELSE LET v == MapInt(ver_match)
                    code == PrepareVersionCode(v[1], v[2], v[3])
                    new_content == PrepareSubVersionCode(content, code)
                IN  /\ cargo_toml' = new_content
                    /\ runs' = Append(runs,
                            [script |-> "prepare_release", content |-> content,
                             wrote |-> TRUE, new_content |-> new_content,
                             exit |-> 0])
    /\ UNCHANGED <<codeVars, xformVars, escapeVars, metaVars, releaseVars>>

NextSync == SyncVersionCode \/ PrepareReleaseCargo

SpecSync == InitSync /\ [][NextSync]_vars

\* whether the text holds a version_code field the pattern finds
RECURSIVE HasVersionCodeFrom(_, _)
HasVersionCodeFrom(s, i) ==
    /\ i <= Len(s)
    /\ \/ AtLineStart(s, i) /\ MatchVersionCodeAt(s, i) > 0
       \/ HasVersionCodeFrom(s, i + 1)

\* C2: the version_code substitution is idempotent: a second run, of either
\* script, on a manifest with a version field writes text identical to the
\* text the first run wrote.
SubstitutionIdempotent ==
    \A k \in 2..Len(runs) :
        (runs[k - 1].wrote /\ runs[k].wrote)
            => runs[k].new_content = runs[k - 1].new_content

\* two runs, the first of which changed a version_code field
SubstitutionWitness ==
    /\ Len(runs) = 2
    /\ runs[1].wrote /\ runs[2].wrote
    /\ HasVersionCodeFrom(runs[1].content, 1)
    /\ runs[1].new_content # runs[1].content

\* C9: the version field and the version_code field are mandatory: a run on
\* a manifest that lacks either one ends with a non-zero exit code.
MandatoryFieldsFatal ==
    \A k \in 1..Len(runs) :
        (\/ SyncSearchVersion(runs[k].content) = <<>>
         \/ ~HasVersionCodeFrom(runs[k].content, 1))
            => runs[k].exit # 0

\* ------------------------------------- _parse_changelog_to_appstream
\* str.strip(): leading and trailing whitespace removed
RECURSIVE LStrip(_)
LStrip(s) == IF s # <<>> /\ IsSpace(Head(s)) THEN LStrip(Tail(s)) ELSE s

RECURSIVE RStrip(_)
RStrip(s) ==
    IF s # <<>> /\ IsSpace(s[Len(s)]) THEN RStrip(SubSeq(s, 1, Len(s) - 1)) ELSE s

Strip(s) == RStrip(LStrip(s))

\* str.split("\n"), scanning from position i with the line begun in cur
RECURSIVE SplitFrom(_, _, _)
SplitFrom(s, i, cur) ==
    IF i > Len(s) THEN <<cur>>
    ELSE IF s[i] = "\n" THEN <<cur>> \o SplitFrom(s, i + 1, <<>>)
         ELSE SplitFrom(s, i + 1, Append(cur, s[i]))

SplitLines(s) == SplitFrom(s, 1, <<>>)

\* str.startswith(prefix)
StartsWith(s, prefix) ==
    Len(s) >= Len(prefix) /\ SubSeq(s, 1, Len(prefix)) = prefix

\* the positions from i on at which old occurs in s
OccurrencesFrom(s, i, old) ==
    { j \in i..(Len(s) - Len(old) + 1) : SubSeq(s, j, j + Len(old) - 1) = old }

\* str.replace(old, new): every occurrence, left to right, not overlapping
RECURSIVE ReplaceFrom(_, _, _, _)
ReplaceFrom(s, i, old, new) ==
    LET occ == OccurrencesFrom(s, i, old)
    IN  IF occ = {} THEN SubSeq(s, i, Len(s))
        ELSE LET j == CHOOSE x \in occ : \A y \in occ : x <= y
             IN  SubSeq(s, i, j - 1) \o new \o ReplaceFrom(s, j + Len(old), old, new)

Replace(s, old, new) == ReplaceFrom(s, 1, old, new)

\* "\n".join(parts)
RECURSIVE Join(_)
Join(parts) ==
    IF parts = <<>> THEN <<>>
    ELSE IF Len(parts) = 1 THEN parts[1]
         ELSE parts[1] \o <<"\n">> \o Join(Tail(parts))

\* <!--\s*\d+\s*--> matched at position i: the position after the match,
\* or 0 when it does not match there
MatchOrderCommentAt(s, i) ==
    LET d1 == SkipSpaces(s, i + 4)
        d2 == SkipDigits(s, d1)
        e  == SkipSpaces(s, d2)
    IN  IF /\ At(s, i, "<") /\ At(s, i + 1, "!")
           /\ At(s, i + 2, "-") /\ At(s, i + 3, "-")
           /\ d2 > d1
           /\ At(s, e, "-") /\ At(s, e + 1, "-") /\ At(s, e + 2, ">")
        THEN e + 3
        ELSE 0

\* re.sub(r"<!--\s*\d+\s*-->", "", section_name)
RECURSIVE RemoveOrderCommentsFrom(_, _)
RemoveOrderCommentsFrom(s, i) ==
    IF i > Len(s) THEN <<>>
    ELSE IF MatchOrderCommentAt(s, i) > 0
         THEN RemoveOrderCommentsFrom(s, MatchOrderCommentAt(s, i))
         ELSE <<s[i]>> \o RemoveOrderCommentsFrom(s, i + 1)

\* the characters of the class [🚀🐛🚜📚⚡🎨🧪⚙️◀️💼], U+FE0F among them
Emojis ==
    { "{rocket}", "{bug}", "{tractor}", "{books}", "{zap}", "{art}",
      "{test_tube}", "{gear}", "{vs16}", "{reverse}", "{briefcase}" }

\* re.sub(r"[...]", "", section_name)
RemoveEmojis(s) == SelectSeq(s, LAMBDA c : c \notin Emojis)

\* flush_section: the cleaned section name
CleanSectionName(current_section) ==
    Strip(RemoveEmojis(RemoveOrderCommentsFrom(current_section, 1)))

\* the first position from i on that holds ")", or 0
RECURSIVE FindClose(_, _)
FindClose(s, i) ==
    IF i > Len(s) THEN 0
    ELSE IF s[i] = ")" THEN i ELSE FindClose(s, i + 1)

\* \*\(([^)]+)\)\*\s* matched at position i: <<position of ")", position
\* after the match>>, or <<>> when it does not match there
MatchScopeAt(s, i) ==
    LET c == FindClose(s, i + 2)
    IN  IF /\ At(s, i, "*") /\ At(s, i + 1, "(")
           /\ c > i + 2
           /\ At(s, c + 1, "*")
        THEN <<c, SkipSpaces(s, c + 2)>>
        ELSE <<>>

\* re.sub(r"\*\(([^)]+)\)\*\s*", r"(\1) ", item)
RECURSIVE ScopeRewriteFrom(_, _)
ScopeRewriteFrom(s, i) ==
    IF i > Len(s) THEN <<>>
    ELSE LET m == MatchScopeAt(s, i)
         IN  IF m # <<>>
             THEN <<"(">> \o SubSeq(s, i + 2, m[1] - 1) \o <<")", " ">>
                    \o ScopeRewriteFrom(s, m[2])
             ELSE <<s[i]>> \o ScopeRewriteFrom(s, i + 1)

\* the word "breaking" under re.IGNORECASE
IsBreakingWord(w) == w \in {"breaking", "Breaking", "BREAKING"}

\* \[?\*\*breaking\*\*\]?\s* matched at position i: the position after the
\* match, or 0 when it does not match there
MatchBreakingAt(s, i) ==
    LET b == IF At(s, i, "[") THEN i + 1 ELSE i
        r == b + 5
        e == IF At(s, r, "]") THEN r + 1 ELSE r
    IN  IF /\ At(s, b, "*") /\ At(s, b + 1, "*")
           /\ b + 2 <= Len(s) /\ IsBreakingWord(s[b + 2])
           /\ At(s, b + 3, "*") /\ At(s, b + 4, "*")
        THEN SkipSpaces(s, e)
        ELSE 0

\* re.sub(r"\[?\*\*breaking\*\*\]?\s*", "[breaking] ", item, flags=re.IGNORECASE)
RECURSIVE BreakingRewriteFrom(_, _)
BreakingRewriteFrom(s, i) ==
    IF i > Len(s) THEN <<>>
    ELSE IF MatchBreakingAt(s, i) > 0
         THEN <<"[", "breaking", "]", " ">>
                \o BreakingRewriteFrom(s, MatchBreakingAt(s, i))
         ELSE <<s[i]>> \o BreakingRewriteFrom(s, i + 1)

\* the list-item branch: the item appended for a line that starts with "- "
CleanItem(line) ==
    LET item0 == Strip(SubSeq(line, 3, Len(line)))
        item1 == ScopeRewriteFrom(item0, 1)
        item2 == BreakingRewriteFrom(item1, 1)
    IN  Replace(item2, <<"*", "*">>, <<>>)

\* a plausible slip: "<" and ">" escaped before "&", so the "&" of the
\* entities just written is escaped again
EscapeAmpLast(it) ==
    Replace(Replace(Replace(it, <<"<">>, <<"&", "lt", ";">>),
                    <<">">>, <<"&", "gt", ";">>),
            <<"&">>, <<"&", "amp", ";">>)

EntityNames == {"amp", "lt", "gt"}

\* whether an entity sequence (&amp; &lt; or &gt;) stands at position i
EntityAt(s, i) ==
    /\ At(s, i, "&")
    /\ i + 1 <= Len(s) /\ s[i + 1] \in EntityNames
    /\ At(s, i + 2, ";")

\* an escaping that leaves the entity sequences of its input untouched
RECURSIVE EscapeKeepingEntitiesFrom(_, _)
EscapeKeepingEntitiesFrom(s, i) ==
    IF i > Len(s) THEN <<>>
    ELSE IF EntityAt(s, i)
         THEN SubSeq(s, i, i + 2) \o EscapeKeepingEntitiesFrom(s, i + 3)
         ELSE (CASE s[i] = "&" -> <<"&", "amp", ";">>
                 [] s[i] = "<" -> <<"&", "lt", ";">>
                 [] s[i] = ">" -> <<"&", "gt", ";">>
                 [] OTHER -> <<s[i]>>)
                \o EscapeKeepingEntitiesFrom(s, i + 1)

EscapeKeepingEntities(it) == EscapeKeepingEntitiesFrom(it, 1)

\* item.replace("&", "&amp;").replace("<", "&lt;").replace(">", "&gt;")
EscapeItem(it) ==
    Replace(Replace(Replace(it, <<"&">>, <<"&", "amp", ";">>),
                    <<"<">>, <<"&", "lt", ";">>),
            <<">">>, <<"&", "gt", ";">>)

\* f"          <li>{item}</li>"
LiLine(it) == <<"          <li>">> \o EscapeItem(it) \o <<"</li>">>

RECURSIVE LiLines(_)
LiLines(items) ==
    IF items = <<>> THEN <<>> ELSE <<LiLine(Head(items))>> \o LiLines(Tail(items))

\* current_section = None; None and "" are both falsy and a falsy section
\* is never read, so None is the empty text
None == <<>>

\* a plausible slip: a section is flushed whether or not it has items
FlushSectionIgnoringItems(current_section, current_items, xml_parts) ==
    IF current_section # <<>> /\ CleanSectionName(current_section) # <<>>
    THEN xml_parts
           \o << <<"        <p>">> \o CleanSectionName(current_section) \o <<":</p>">>,
                 <<"        <ul>">> >>
           \o LiLines(current_items)
           \o << <<"        </ul>">> >>
    ELSE xml_parts

\* flush_section(): xml_parts after the call
FlushSection(current_section, current_items, xml_parts) ==
    IF current_section # <<>> /\ current_items # <<>>
    THEN LET section_name == CleanSectionName(current_section)
         IN  IF section_name # <<>>
             THEN xml_parts
                    \o << <<"        <p>">> \o section_name \o <<":</p>">>,
                          <<"        <ul>">> >>
                    \o LiLines(current_items)
                    \o << <<"        </ul>">> >>
             ELSE xml_parts
    ELSE xml_parts

IsVersionHeader(line) ==
    StartsWith(line, <<"#", "#">>) /\ ~StartsWith(line, <<"#", "#", "#">>)

IsSectionHeader(line) == StartsWith(line, <<"#", "#", "#">>)

IsListItem(line) == StartsWith(line, <<"-", " ">>)

\* the for loop over lines, from line i on, and the flush after it:
\* the final xml_parts
RECURSIVE ParseLoop(_, _, _, _, _)
ParseLoop(lines, i, current_section, current_items, xml_parts) ==
    IF i > Len(lines)
    THEN FlushSection(current_section, current_items, xml_parts)
    ELSE LET line == Strip(lines[i])
         IN  IF IsVersionHeader(line) \/ line = <<>>
             THEN ParseLoop(lines, i + 1, current_section, current_items, xml_parts)
             ELSE IF IsSectionHeader(line)
             THEN ParseLoop(lines, i + 1,
                            Strip(Replace(line, <<"#", "#", "#">>, <<>>)),
                            <<>>,
                            FlushSection(current_section, current_items, xml_parts))
             ELSE IF IsListItem(line)
             THEN ParseLoop(lines, i + 1, current_section,
                            Append(current_items, CleanItem(line)), xml_parts)
             ELSE ParseLoop(lines, i + 1, current_section, current_items, xml_parts)

XmlParts(changelog) == ParseLoop(SplitLines(Strip(changelog)), 1, None, <<>>, <<>>)

Fallback == <<"        <p>See CHANGELOG.md for details.</p>", "\n">>

\* a plausible slip: no fallback branch, the joined parts are returned as
\* they are
ParseWithoutFallback(changelog) == Join(XmlParts(changelog)) \o <<"\n">>

\* _parse_changelog_to_appstream(changelog_md): the string returned
ParseChangelogToAppstream(changelog) ==
    LET xml_parts == XmlParts(changelog)
    IN  IF xml_parts # <<>> THEN Join(xml_parts) \o <<"\n">> ELSE Fallback

\* the lines the changelog bodies drawn are made of
HeadFeatures  == <<"#", "#", "#", " ", "Features">>
HeadFixes     ==
    <<"#", "#", "#", " ", "{bug}", " ", "Fixes", " ",
      "<", "!", "-", "-", " ", "1", " ", "-", "-", ">">>
HeadSymbols   == <<"#", "#", "#", " ", "{rocket}", "<", "!", "-", "-", "0", "-", "-", ">">>
VersionHead   == <<"#", "#", " ", "1", ".", "0">>
ItemPlain     == <<" ", "-", " ", "add", " ", "X", " ">>
ItemBreaking  ==
    <<"-", " ", "*", "(", "ui", ")", "*", " ", "*", "*", "Breaking", "*", "*", " ",
      "a", "<", "b">>
ItemStars     == <<"-", " ", "*", "*">>
Prose         == <<"note">>

LineSamples ==
    { HeadFeatures, HeadFixes, HeadSymbols, VersionHead,
      ItemPlain, ItemBreaking, ItemStars, Prose, <<>> }

\* most lines of a changelog body drawn
MaxLines == 4

ChangelogTexts ==
    { Join(ls) : ls \in UNION { [1..n -> LineSamples] : n \in 0..MaxLines } }

InitXform ==
    /\ changelog_md \in ChangelogTexts
    /\ xml_result = <<>>
    /\ xform_pc = "call"
    /\ IdleCode /\ IdleSync /\ IdleEscape /\ IdleMeta /\ IdleRelease

\* one call of _parse_changelog_to_appstream(changelog_md)
ParseChangelog ==
    /\ xform_pc = "call"
    /\ xml_result' = ParseChangelogToAppstream(changelog_md)
    /\ xform_pc' = "returned"
    /\ UNCHANGED <<changelog_md, codeVars, syncVars, escapeVars, metaVars, releaseVars>>

NextXform == ParseChangelog

SpecXform == InitXform /\ [][NextXform]_vars

\* what the claims say of a changelog body, stated over its lines
BodyLines(md) ==
    LET ls == SplitLines(Strip(md)) IN [i \in 1..Len(ls) |-> Strip(ls[i])]

HeadIdx(L) == { i \in 1..Len(L) : IsSectionHeader(L[i]) }

NextHead(L, i) ==
    IF \E j \in HeadIdx(L) : j > i
    THEN CHOOSE j \in HeadIdx(L) : j > i /\ \A k \in HeadIdx(L) : k > i => j <= k
    ELSE Len(L) + 1

ItemIdx(L, i) == { j \in (i + 1)..(NextHead(L, i) - 1) : IsListItem(L[j]) }

TitleOf(L, i) == CleanSectionName(Strip(Replace(L[i], <<"#", "#", "#">>, <<>>)))

\* the sub-headings with a non-empty cleaned title and at least one item
TitledWithItems(L) == { i \in HeadIdx(L) : TitleOf(L, i) # <<>> /\ ItemIdx(L, i) # {} }

RECURSIVE ItemLinesFrom(_, _, _)
ItemLinesFrom(L, j, last) ==
    IF j > last THEN <<>>
    ELSE (IF IsListItem(L[j]) THEN <<LiLine(CleanItem(L[j]))>> ELSE <<>>)
            \o ItemLinesFrom(L, j + 1, last)

\* the rendering of the sections S of L, in source order
RECURSIVE RenderFrom(_, _, _)
RenderFrom(L, i, S) ==
    IF i > Len(L) THEN <<>>
    ELSE (IF i \in S
          THEN << <<"        <p>">> \o TitleOf(L, i) \o <<":</p>">>,
                  <<"        <ul>">> >>
                 \o ItemLinesFrom(L, i + 1, NextHead(L, i) - 1)
                 \o << <<"        </ul>">> >>
          ELSE <<>>)
            \o RenderFrom(L, i + 1, S)

Rendering(L, S) == Join(RenderFrom(L, 1, S)) \o <<"\n">>

HasToken(s, c) == \E i \in 1..Len(s) : s[i] = c

\* C4: the sections rendered are exactly, in source order, the sub-headings
\* with a non-empty cleaned title and at least one bulleted item before the
\* next sub-heading, each with its items in source order; every other
\* sub-heading is dropped.
SectionsRendered ==
    xform_pc = "returned" =>
        LET L == BodyLines(changelog_md)
        IN  IF TitledWithItems(L) # {}
            THEN xml_result = Rendering(L, TitledWithItems(L))
            ELSE ~HasToken(xml_result, "        <ul>")

\* two sections with different titles have been rendered
SectionsWitness ==
    /\ xform_pc = "returned"
    /\ LET L == BodyLines(changelog_md)
       IN  /\ Cardinality(TitledWithItems(L)) = 2
           /\ \E i, j \in TitledWithItems(L) : TitleOf(L, i) # TitleOf(L, j)
    /\ xml_result # Fallback

\* C5: the transformer never returns empty output, and it returns the
\* fallback line exactly when no section is rendered.
FallbackWhenNoSection ==
    xform_pc = "returned" =>
        /\ xml_result # <<>>
        /\ xml_result # <<"\n">>
        /\ (xml_result = Fallback) <=> (TitledWithItems(BodyLines(changelog_md)) = {})
        /\ (xml_result = Fallback) <=> ~HasToken(xml_result, "        <ul>")

\* the fallback returned for a body that holds only a version heading
FallbackWitness ==
    /\ xform_pc = "returned"
    /\ changelog_md = VersionHead
    /\ xml_result = Fallback

\* C8: a section whose items all become empty after the inline cleanups is
\* dropped: the output is the rendering of the sections that keep at least
\* one non-empty item.
EmptyItemSectionsDropped ==
    xform_pc = "returned" =>
        LET L == BodyLines(changelog_md)
            Kept == { i \in TitledWithItems(L) :
                        \E j \in ItemIdx(L, i) : CleanItem(L[j]) # <<>> }
        IN  IF Kept # {}
            THEN xml_result = Rendering(L, Kept)
            ELSE xml_result = Fallback

\* ----------------------------------------------- flush_section: escaping
\* the characters and words the items drawn are made of
ItemAlphabet == {"&", "<", ">", ";", "amp", "lt", "a"}

\* most tokens of an item drawn
MaxItemLen == 4

InitEscape ==
    /\ item \in UNION { [1..n -> ItemAlphabet] : n \in 0..MaxItemLen }
    /\ li_line = <<>>
    /\ IdleCode /\ IdleSync /\ IdleXform /\ IdleMeta /\ IdleRelease

\* the body of "for item in current_items" in flush_section
RenderItem ==
    /\ li_line = <<>>
    /\ li_line' = LiLine(item)
    /\ UNCHANGED <<item, codeVars, syncVars, xformVars, metaVars, releaseVars>>

NextEscape == RenderItem

SpecEscape == InitEscape /\ [][NextEscape]_vars

\* the entity form of one character
EntityOf(c) ==
    CASE c = "&" -> <<"&", "amp", ";">>
      [] c = "<" -> <<"&", "lt", ";">>
      [] c = ">" -> <<"&", "gt", ";">>
      [] OTHER -> <<c>>

\* every character replaced by its entity form, in one pass
RECURSIVE OnePass(_)
OnePass(s) == IF s = <<>> THEN <<>> ELSE EntityOf(Head(s)) \o OnePass(Tail(s))

\* C6: every raw "<", ">" and "&" of the item is replaced by its entity form
\* exactly once, the "&" written for "<" or ">" is not escaped again, and no
\* raw "<" or ">" is left inside the <li> element.
EscapedExactlyOnce ==
    li_line # <<>> =>
        /\ li_line = <<"          <li>">> \o OnePass(item) \o <<"</li>">>
        /\ \A i \in 2..(Len(li_line) - 1) : li_line[i] \notin {"<", ">"}

\* an item with a raw "<", ">" and "&" has been rendered
EscapedWitness ==
    /\ li_line # <<>>
    /\ HasToken(item, "<") /\ HasToken(item, ">") /\ HasToken(item, "&")

\* C7 as claimed: an entity sequence the item already contains is rendered
\* unchanged, its "&" not escaped a second time.
EntitiesLeftUnchanged ==
    li_line # <<>> =>
        li_line = <<"          <li>">> \o EscapeKeepingEntities(item) \o <<"</li>">>

\* the position in the escaped text of position i of the item
RECURSIVE EscapedPos(_, _)
EscapedPos(s, i) ==
    IF i = 1 THEN 1
    ELSE EscapedPos(s, i - 1) + Len(EntityOf(s[i - 1]))

\* C7 as amended: the "&" of an entity sequence the item already contains is
\* escaped like any other "&": &amp; is rendered &amp;amp;, &lt; is rendered
\* &amp;lt; and &gt; is rendered &amp;gt;.
EntityAmpersandEscaped ==
    li_line # <<>> =>
        \A i \in 1..Len(item) :
            EntityAt(item, i) =>
                LET k == 1 + EscapedPos(item, i)
                IN  /\ k + 4 <= Len(li_line)
                    /\ SubSeq(li_line, k, k + 4) = <<"&", "amp", ";", item[i + 1], ";">>

\* an item that holds an entity sequence has been rendered
EntityWitness ==
    /\ li_line # <<>>
    /\ \E i \in 1..Len(item) : EntityAt(item, i)

\* ------------------------------- prepare_release.py step 6: metainfo.xml
\* version_string = f"{major}.{minor}.{patch}"
VersionString(major, minor, patch) ==
    str(major) \o <<".">> \o str(minor) \o <<".">> \o str(patch)

\* release_xml, lines 75-77
ReleaseXml(version_string, today, changelog_xml) ==
    <<"    <release version=\"">> \o version_string
        \o <<"\" date=\"", today, "\">", "\n">>
        \o <<"      <description>", "\n">> \o changelog_xml
        \o <<"      </description>", "\n">>
        \o <<"    </release>">>

ReleasesTag == <<"<", "releases", ">">>
ComponentEnd == <<"<", "/", "component", ">">>

\* old in s
Contains(s, old) ==
    \E i \in 1..(Len(s) - Len(old) + 1) : SubSeq(s, i, i + Len(old) - 1) = old

\* lines 82-87: xml_content after the insertion
InsertReleaseXml(content, release_xml) ==
    IF Contains(content, ReleasesTag)
    THEN Replace(content, ReleasesTag, ReleasesTag \o <<"\n">> \o release_xml)
    ELSE Replace(content, ComponentEnd,
                 <<"  ">> \o ReleasesTag \o <<"\n">> \o release_xml \o <<"\n">>
                    \o <<"  ", "<", "/", "releases", ">", "\n">> \o ComponentEnd)

\* the metainfo documents drawn: one root closing tag, at most one
\* <releases> container
ComponentStart == <<"<", "component", ">", "\n">>
ReleasesEnd == <<"  ", "<", "/", "releases", ">", "\n">>
OldEntry ==
    <<"    <release version=\"", "0", ".", "9", ".", "0", "\" date=\"",
      "2025-12-31", "\">", "\n", "    </release>", "\n">>

MetainfoDocs ==
    { ComponentStart \o ComponentEnd,
      ComponentStart \o <<"name", "\n">> \o ComponentEnd,
      ComponentStart \o <<"  ">> \o ReleasesTag \o <<"\n">> \o ReleasesEnd \o ComponentEnd,
      ComponentStart \o <<"  ">> \o ReleasesTag \o <<"\n">> \o OldEntry
            \o ReleasesEnd \o ComponentEnd }

\* the cleaned changelog bodies drawn
CleanBodies ==
    { Join(<<HeadFeatures, ItemPlain>>),
      VersionHead,
      Join(<< <<"#", "#", "#", " ">> \o ReleasesTag, ItemPlain >>),
      Join(<< <<"#", "#", "#", " ">> \o ComponentEnd, ItemBreaking >>) }

ReleaseVersions == { <<1, 2, 3>>, <<0, 10, 0>> }

Today == "2026-01-01"

InitMeta ==
    /\ xml_content \in MetainfoDocs
    /\ insertions = <<>>
    /\ IdleCode /\ IdleSync /\ IdleXform /\ IdleEscape /\ IdleRelease

\* prepare_release.py lines 66-90: one release-insertion step
InsertRelease ==
    /\ Len(insertions) < MaxRuns
    /\ \E v \in ReleaseVersions, clean_body \in CleanBodies :
         LET changelog_xml == ParseChangelogToAppstream(clean_body)
             release_xml == ReleaseXml(VersionString(v[1], v[2], v[3]), Today,
                                       changelog_xml)
             new_xml == InsertReleaseXml(xml_content, release_xml)
         IN  /\ xml_content' = new_xml
             /\ insertions' = Append(insertions,
                    [release_xml |-> release_xml, before |-> xml_content,
                     after |-> new_xml])
    /\ UNCHANGED <<codeVars, syncVars, xformVars, escapeVars, releaseVars>>

NextMeta == InsertRelease

SpecMeta == InitMeta /\ [][NextMeta]_vars

\* the number of release elements of a document
CountReleases(s) == Cardinality({ i \in 1..Len(s) : s[i] = "    <release version=\"" })

\* the position of the first <releases> opening tag, or 0
FirstReleasesTag(s) ==
    IF Contains(s, ReleasesTag)
    THEN CHOOSE i \in 1..Len(s) :
            /\ i + 2 <= Len(s) /\ SubSeq(s, i, i + 2) = ReleasesTag
            /\ \A j \in 1..(i - 1) : ~(j + 2 <= Len(s) /\ SubSeq(s, j, j + 2) = ReleasesTag)
    ELSE 0

\* whether text t stands at position i of s
TextAt(s, i, t) == i + Len(t) - 1 <= Len(s) /\ SubSeq(s, i, i + Len(t) - 1) = t

\* C3: each run of the release-insertion step adds exactly one release
\* element, placed immediately after the <releases> opening tag, so that
\* after two runs the entry of the later run precedes the entry of the
\* earlier run.
OneReleasePerRun ==
    \A k \in 1..Len(insertions) :
        LET r == insertions[k]
            p == FirstReleasesTag(r.after)
        IN  /\ CountReleases(r.after) = CountReleases(r.before) + 1
            /\ p > 0
            /\ TextAt(r.after, p + 3, <<"\n">> \o r.release_xml)
            /\ k >= 2 =>
                 TextAt(r.after, p + 4 + Len(r.release_xml),
                        <<"\n">> \o insertions[k - 1].release_xml)

\* ------------------------------------------ prepare_release.py: main()
\* the manifests the pipeline is run on
ReleaseManifests ==
    { VersionLineA \o CodeField,
      VersionLineB \o CodeField \o <<"\n">>,
      VersionLineA,
      CodeField \o <<"\n">> \o VersionLineB,
      CodeField,
      <<"name">> \o VersionLineA }

\* a plausible slip: check=True left out, so a failed tool does not stop
\* the run
SubprocessRunUnchecked(ok, next) == next

\* subprocess.run(..., check=True) and subprocess.check_output(...): the
\* step the run goes to, "exit" when CalledProcessError or
\* FileNotFoundError is raised and ends the process
SubprocessRun(ok, next) == IF ok THEN next ELSE "exit"

\* what no step of the pipeline changes
releaseRest == <<runs, flatpak_exists, codeVars, xformVars, escapeVars, metaVars>>

InitRelease ==
    /\ cargo_toml \in ReleaseManifests
    /\ runs = <<>>
    /\ pc = "derive"
    /\ writes = <<>>
    /\ failure = "none"
    /\ git_add_called = FALSE
    /\ flatpak_exists \in BOOLEAN
    /\ IdleCode /\ IdleXform /\ IdleEscape /\ IdleMeta

\* steps 1 and 2, lines 14-30: read the version, compute the code
DeriveVersion ==
    /\ pc = "derive"
    /\ IF PrepareSearchVersion(cargo_toml) = <<>>
       THEN pc' = "exit" /\ failure' = "derive"
       ELSE pc' = "patch" /\ UNCHANGED failure
    /\ UNCHANGED <<cargo_toml, writes, git_add_called, releaseRest>>

\* step 3, lines 33-42: rewrite Cargo.toml
PatchCargo ==
    /\ pc = "patch"
    /\ LET v == MapInt(PrepareSearchVersion(cargo_toml))
       IN  cargo_toml' =
              PrepareSubVersionCode(cargo_toml, PrepareVersionCode(v[1], v[2], v[3]))
    /\ writes' = Append(writes, "Cargo.toml")
    /\ pc' = "changelog"
    /\ UNCHANGED <<failure, git_add_called, releaseRest>>

\* a step that runs an external tool or opens a file and, when that
\* succeeds, leaves file written
ToolStep(step, file, next) ==
    /\ pc = step
    /\ \E ok \in BOOLEAN :
         /\ pc' = SubprocessRun(ok, next)
         /\ IF ok
            THEN writes' = Append(writes, file) /\ UNCHANGED failure
            ELSE failure' = step /\ UNCHANGED writes
    /\ UNCHANGED <<cargo_toml, git_add_called, releaseRest>>

\* step 4, lines 45-48: git-cliff writes CHANGELOG.md
UpdateChangelog == ToolStep("changelog", "CHANGELOG.md", "fastlane")

\* step 5, lines 51-63: git-cliff output written to the Fastlane changelog
GenerateFastlane == ToolStep("fastlane", "fastlane", "metainfo")

\* step 6, lines 66-90: the metainfo file read and rewritten
UpdateMetainfo == ToolStep("metainfo", "metainfo", "flatpak")

\* step 7, lines 95-122: the local Flatpak manifest, when it exists
UpdateFlatpak ==
    /\ pc = "flatpak"
    /\ IF flatpak_exists
       THEN \E rev \in {"ok", "CalledProcessError", "FileNotFoundError"} :
              CASE rev = "ok" ->
                     /\ writes' = Append(writes, "flatpak")
                     /\ pc' = "lockfile" /\ UNCHANGED failure
                [] rev = "CalledProcessError" ->
                     \* caught: a warning, the manifest update is skipped
                     /\ pc' = "lockfile" /\ UNCHANGED <<writes, failure>>
                [] rev = "FileNotFoundError" ->
                     /\ pc' = "exit" /\ failure' = "flatpak" /\ UNCHANGED writes
       ELSE pc' = "lockfile" /\ UNCHANGED <<writes, failure>>
    /\ UNCHANGED <<cargo_toml, git_add_called, releaseRest>>

\* step 8, lines 125-126: cargo generate-lockfile
UpdateLockfile == ToolStep("lockfile", "Cargo.lock", "stage")

\* step 9, lines 129-146: git add
StageFiles ==
    /\ pc = "stage"
    /\ git_add_called' = TRUE
    /\ \E ok \in BOOLEAN :
         /\ pc' = SubprocessRun(ok, "done")
         /\ IF ok THEN UNCHANGED failure ELSE failure' = "stage"
    /\ UNCHANGED <<cargo_toml, writes, releaseRest>>

NextRelease ==
    \/ DeriveVersion
    \/ PatchCargo
    \/ UpdateChangelog
    \/ GenerateFastlane
    \/ UpdateMetainfo
    \/ UpdateFlatpak
    \/ UpdateLockfile
    \/ StageFiles

SpecRelease == InitRelease /\ [][NextRelease]_vars

\* the order of the steps the claim gives
StepOrder ==
    <<"derive", "patch", "changelog", "fastlane", "metainfo", "flatpak",
      "lockfile", "stage">>

StepRank(step) == CHOOSE k \in 1..Len(StepOrder) : StepOrder[k] = step

\* the step that writes a file
WriterOf(file) ==
    CASE file = "Cargo.toml" -> "patch"
      [] file = "CHANGELOG.md" -> "changelog"
      [] file = "fastlane" -> "fastlane"
      [] file = "metainfo" -> "metainfo"
      [] file = "flatpak" -> "flatpak"
      [] file = "Cargo.lock" -> "lockfile"

Written == { writes[k] : k \in 1..Len(writes) }

\* the files of the steps that always write when they succeed
AlwaysWritten == {"Cargo.toml", "CHANGELOG.md", "fastlane", "metainfo", "Cargo.lock"}

\* C10: the steps run in one fixed order and a fatal failure aborts all
\* later steps: no file of a later step is written, git add is not called,
\* the files of the earlier steps stay written, and a missing version field
\* aborts the run before any file is written.
FailureAbortsLaterSteps ==
    /\ \A j, k \in 1..Len(writes) :
          j < k => StepRank(WriterOf(writes[j])) < StepRank(WriterOf(writes[k]))
    /\ failure # "none" =>
          /\ pc = "exit"
          /\ \A f \in Written : StepRank(WriterOf(f)) < StepRank(failure)
          /\ \A f \in AlwaysWritten :
                StepRank(WriterOf(f)) < StepRank(failure) => f \in Written
          /\ failure # "stage" => ~git_add_called
    /\ failure = "derive" => writes = <<>>
    /\ git_add_called => AlwaysWritten \subseteq Written
    /\ pc = "done" => failure = "none" /\ git_add_called

\* a tool failed after four files were written: the run has ended there
FailureWitness ==
    /\ failure = "lockfile"
    /\ pc = "exit"
    /\ Len(writes) >= 4
    /\ ~git_add_called
====
